---- MODULE Spec2Model ----
(***************************************************************************)
(* Label reconciliation of linear-task-sync.  The repository holds two     *)
(* variants of the same engine:                                            *)
(*   mode = "lookup" : src/sync_v1.mts       (project name -> mapping doc) *)
(*   mode = "static" : src/unnamed/part_000  (labels inferred from the     *)
(*                                            project identifier)          *)
(* A step of the model is one event-loop task of a syncTasks() run: the    *)
(* code that runs from the completion of one awaited operation (a GraphQL  *)
(* response, a retry timer, the mapping file read) to the next await.      *)
(* Strings the code takes apart (project identifiers, label names) are     *)
(* sequences of one-character strings.                                     *)
(***************************************************************************)
EXTENDS Integers, Sequences, FiniteSets, TLC

\* ------------------------------------------------------------- constants
RETRY_ATTEMPTS == 3
ISSUES_PAGE_FIRST == 50
LABELS_PAGE_FIRST == 100

\* ------------------------------------------------------------- bounds
\* Largest number of items the server puts in one page of a listing.
MaxPageItems == 1
\* Largest number of faulty responses (transport failure, missing data,
\* success:false) over a behaviour.
MaxFaults == 3
\* Number of times the script is launched.
MaxProcs == 2
\* Largest length of a project identifier given to the inference functions.
MaxIdentifierLen == 3

Min(a, b) == IF a < b THEN a ELSE b

\* ------------------------------------------------------------- strings
Digits == <<"0", "1", "2", "3", "4", "5", "6", "7", "8", "9">>
DigitChars == {Digits[i] : i \in 1..10}
DigitVal(c) == (CHOOSE i \in 1..10 : Digits[i] = c) - 1

\* String.prototype.substring(0, n) / slice(a, b) on a 0-based half-open range
Slice(s, a, b) == SubSeq(s, a + 1, Min(b, Len(s)))

\* projectIdentifier.split('.')[0]: the text before the first dot
RECURSIVE FirstSegment(_)
FirstSegment(s) ==
  IF s = <<>> \/ Head(s) = "." THEN <<>> ELSE <<Head(s)>> \o FirstSegment(Tail(s))

\* the longest prefix of decimal digits
RECURSIVE DigitPrefix(_)
DigitPrefix(s) ==
  IF s = <<>> \/ Head(s) \notin DigitChars THEN <<>>
  ELSE <<Head(s)>> \o DigitPrefix(Tail(s))

RECURSIVE DecValue(_)
DecValue(ds) ==
  IF ds = <<>> THEN 0 ELSE 10 * DecValue(SubSeq(ds, 1, Len(ds) - 1)) + DigitVal(ds[Len(ds)])

RECURSIVE TrimLeft(_)
TrimLeft(s) == IF s # <<>> /\ Head(s) = " " THEN TrimLeft(Tail(s)) ELSE s

\* parseInt(s) with no radix: leading blanks, an optional sign, then the
\* longest run of decimal digits; NaN when there is none.  (The 0x prefix is
\* outside the alphabet of the modelled identifiers.)
NaN == [nan |-> TRUE, val |-> 0]
Num(n) == [nan |-> FALSE, val |-> n]
ParseInt(s) ==
  LET t == TrimLeft(s)
      signed == t # <<>> /\ Head(t) \in {"-", "+"}
      body == IF signed THEN Tail(t) ELSE t
      ds == DigitPrefix(body)
  IN IF ds = <<>> THEN NaN
     ELSE IF signed /\ Head(t) = "-" THEN Num(0 - DecValue(ds)) ELSE Num(DecValue(ds))

RECURSIVE DecString(_)
DecString(n) ==
  IF n < 10 THEN <<Digits[n + 1]>> ELSE DecString(n \div 10) \o <<Digits[(n % 10) + 1]>>

\* Number.prototype.toString()
NumToString(x) ==
  IF x.nan THEN <<"N", "a", "N">>
  ELSE IF x.val < 0 THEN <<"-">> \o DecString(0 - x.val) ELSE DecString(x.val)

\* String.prototype.padStart(3, '0')
PadStart3(s) ==
  IF Len(s) >= 3 THEN s ELSE [i \in 1..(3 - Len(s)) |-> "0"] \o s

\* Mutant: the system number is rounded to the nearest hundred.
FloorHundred_Round(x) == IF x.nan THEN NaN ELSE Num(((x.val + 50) \div 100) * 100)

\* Math.floor(x / 100) * 100 and x + 99 on a possibly-NaN number
FloorHundred(x) == IF x.nan THEN NaN ELSE Num((x.val \div 100) * 100)
Plus99(x) == IF x.nan THEN NaN ELSE Num(x.val + 99)

\* ------------------------------------------------------------- inference
\* A call either returns a label name or raises.
Returned(name) == [raised |-> FALSE, name |-> name]
Raised == [raised |-> TRUE, name |-> <<>>]

inferCoreSystemsLabel(projectIdentifier) ==
  IF projectIdentifier = <<>> THEN Raised
  ELSE LET systemNumber == ParseInt(Slice(FirstSegment(projectIdentifier), 0, 3))
           lowerBound == FloorHundred(systemNumber)
           upperBound == Plus99(lowerBound)
       IN Returned(<<"[">> \o PadStart3(NumToString(lowerBound)) \o <<"-">>
                   \o PadStart3(NumToString(upperBound)) \o <<"]">>)

inferCoreAreasLabel(projectIdentifier) ==
  IF projectIdentifier = <<>> THEN Raised
  ELSE LET areaNumber == Slice(FirstSegment(projectIdentifier), 1, 4)
       IN Returned(<<"[">> \o areaNumber \o <<"]">>)

\* ------------------------------------------------------------- workspace data
LABEL_GROUPS == <<"001 Core Systems", "002 Core Areas">>

SystemsName == <<"[", "2", "0", "0", "-", "2", "9", "9", "]">>
AreasName == <<"[", "3", "4", "]">>

\* The labels a workspace of the model may hold: id -> name.
LabelIds == {1, 2}
LabelNameOf == (1 :> SystemsName) @@ (2 :> AreasName)
LabelNode(l) == [id |-> l, name |-> LabelNameOf[l]]

\* The issues of the workspace, in the order the server lists them.
IssueIds == {1, 2}

\* The projects an issue may belong to; 0 stands for "no project" (null).
ProjectIds == {1, 2, 3}
ProjectNameOf == (1 :> "P") @@ (2 :> "Q") @@ (3 :> "R")
ProjectIdentifierOf ==
  (1 :> <<"2", "3", "4", ".", "5">>) @@ (2 :> <<"a", "4", ".", "1">>) @@ (3 :> <<>>)

\* Content of a well-formed project_label_mappings.json: PROJECT_LABEL_MAPPING
MappingDocument ==
  "P" :> (("001 Core Systems" :> SystemsName) @@ ("002 Core Areas" :> AreasName))

\* What the mapping file may be: absent, not JSON, JSON without the
\* PROJECT_LABEL_MAPPING key, or well-formed.
MappingFileStates == {"missing", "unparseable", "nokey", "ok"}

Runs == {1, 2}

VARIABLES
  mode,            \* which variant of the script runs: "lookup" or "static"
  mappingFile,     \* state of project_label_mappings.json on disk
  wsLabels,        \* server: ids of the labels of the workspace
  srvProject,      \* server: issue id -> project id (0: none)
  srvIssueLabels,  \* server: issue id -> set of label ids
  procNo,          \* launches of the script so far
  pc,              \* run -> phase of the run
  awaiting,        \* run -> what the run is suspended on
  attempts,        \* run -> `attempts` of the running fetchWithRetry frame
  endCursor,       \* run -> `endCursor` of the running fetch loop (0: null)
  issues,          \* run -> `issues` accumulated by fetchAllIssues
  labels,          \* run -> `labels` accumulated by fetchWorkspaceLabels
  mapping,         \* run -> PROJECT_LABEL_MAPPING
  issuesToUpdate,  \* run -> the filtered list
  idx,             \* run -> position of the apply loop in issuesToUpdate
  log,             \* history: run -> every request sent and retry timer set
  faults,          \* history: number of faulty responses so far
  identifierArg,   \* the project identifier the inference functions are called on
  systemsResult,   \* outcome of inferCoreSystemsLabel(identifierArg)
  areasResult      \* outcome of inferCoreAreasLabel(identifierArg)

vars == <<mode, mappingFile, wsLabels, srvProject, srvIssueLabels, procNo, pc,
          awaiting, attempts, endCursor, issues, labels, mapping, issuesToUpdate, idx,
          log, faults, identifierArg, systemsResult, areasResult>>

server == <<mode, mappingFile, wsLabels, srvProject>>

\* The variables of the inference functions called on their own.
inference == <<identifierArg, systemsResult, areasResult>>

\* Outcome of a function that has not been called (no label name is empty).
NotCalled == [raised |-> FALSE, name |-> <<>>]

\* The runs a launch of the script starts: the top-level syncTasks() calls.
ActiveRuns == IF mode = "static" THEN {1, 2} ELSE {1}

UndefinedMapping == [defined |-> FALSE, map |-> <<>>]

\* No function has been called on its own.
NoInference ==
  /\ identifierArg = <<>>
  /\ systemsResult = NotCalled
  /\ areasResult = NotCalled

Init ==
  /\ mode \in {"lookup", "static"}
  /\ mappingFile \in (IF mode = "lookup" THEN MappingFileStates ELSE {"missing"})
  /\ wsLabels \in (IF mode = "lookup" THEN SUBSET LabelIds ELSE {{}, {1, 2}})
  /\ srvProject \in [IssueIds -> {0} \cup (IF mode = "lookup" THEN {1, 2} ELSE ProjectIds)]
  /\ srvIssueLabels \in [IssueIds -> IF mode = "lookup" THEN SUBSET wsLabels ELSE {{}}]
  /\ NoInference
  /\ procNo = 0
  /\ pc = [r \in Runs |-> "idle"]
  /\ awaiting = [r \in Runs |-> "none"]
  /\ attempts = [r \in Runs |-> 0]
  /\ endCursor = [r \in Runs |-> 0]
  /\ issues = [r \in Runs |-> <<>>]
  /\ labels = [r \in Runs |-> <<>>]
  /\ mapping = [r \in Runs |-> UndefinedMapping]
  /\ issuesToUpdate = [r \in Runs |-> <<>>]
  /\ idx = [r \in Runs |-> 0]
  /\ log = [r \in Runs |-> <<>>]
  /\ faults = 0

\* The script has not been launched.
NotLaunched ==
  /\ procNo = 0
  /\ pc = [r \in Runs |-> "idle"]
  /\ awaiting = [r \in Runs |-> "none"]
  /\ attempts = [r \in Runs |-> 0]
  /\ endCursor = [r \in Runs |-> 0]
  /\ issues = [r \in Runs |-> <<>>]
  /\ labels = [r \in Runs |-> <<>>]
  /\ mapping = [r \in Runs |-> UndefinedMapping]
  /\ issuesToUpdate = [r \in Runs |-> <<>>]
  /\ idx = [r \in Runs |-> 0]
  /\ log = [r \in Runs |-> <<>>]
  /\ faults = 0

\* ------------------------------------------------------------- server
RECURSIVE SortedSeq(_)
SortedSeq(S) ==
  IF S = {} THEN <<>>
  ELSE LET m == CHOOSE x \in S : \A y \in S : x <= y IN <<m>> \o SortedSeq(S \ {m})

\* The fields of `project` that ISSUES_QUERY selects.  The response holds the
\* selected fields only, so issue.project.identifier is undefined.
ISSUES_QUERY == {"id", "name"}

ProjectNode(p) ==
  IF p = 0 THEN [null |-> TRUE, name |-> "", identDefined |-> FALSE, identifier |-> <<>>]
  ELSE [null |-> FALSE, name |-> ProjectNameOf[p],
        identDefined |-> "identifier" \in ISSUES_QUERY,
        identifier |-> IF "identifier" \in ISSUES_QUERY THEN ProjectIdentifierOf[p] ELSE <<>>]

\* An issue node as the server answers it now.
IssueNode(i) ==
  [id |-> i,
   labels |-> {LabelNode(l) : l \in srvIssueLabels[i]},
   project |-> ProjectNode(srvProject[i])]

\* One page of a listing `all`, after cursor `after` (0: from the start), of
\* at most `first` items.
Page(all, after, first) ==
  LET n == Min(Min(first, MaxPageItems), Len(all) - after)
  IN [nodes |-> SubSeq(all, after + 1, after + n),
      hasNextPage |-> after + n < Len(all),
      endCursor |-> IF n = 0 THEN 0 ELSE after + n]

IssuesPage(after) ==
  LET ids == SortedSeq(IssueIds)
      pg == Page(ids, after, ISSUES_PAGE_FIRST)
  IN [pg EXCEPT !.nodes = [k \in DOMAIN pg.nodes |-> IssueNode(pg.nodes[k])]]

LabelsPage(after) ==
  LET ids == SortedSeq(wsLabels)
      pg == Page(ids, after, LABELS_PAGE_FIRST)
  IN [pg EXCEPT !.nodes = [k \in DOMAIN pg.nodes |-> LabelNode(pg.nodes[k])]]

\* ------------------------------------------------------------- planner
\* workspaceLabels.reduce(...): name -> id, a later label of the same name wins
RECURSIVE ReduceLabels(_, _)
ReduceLabels(ls, acc) ==
  IF ls = <<>> THEN acc
  ELSE ReduceLabels(Tail(ls), (Head(ls).name :> Head(ls).id) @@ acc)

labelNameToId(workspaceLabels) == ReduceLabels(workspaceLabels, <<>>)

existingLabelNames(issue) == {l.name : l \in issue.labels}
existingLabelIds(issue) == {l.id : l \in issue.labels}

\* Mutant: the membership test is not negated.
FilterLookup_NotNegated(issue, M) ==
  IF issue.project.null THEN "skip"
  ELSE IF ~M.defined THEN "raise"
  ELSE IF issue.project.name \notin DOMAIN M.map THEN "skip"
  ELSE LET projectMapping == M.map[issue.project.name]
       IN IF \E g \in DOMAIN LABEL_GROUPS :
               projectMapping[LABEL_GROUPS[g]] \in existingLabelNames(issue)
          THEN "select" ELSE "skip"

\* Mutant: an issue is selected only when all its required labels are absent.
FilterLookup_Every(issue, M) ==
  IF issue.project.null THEN "skip"
  ELSE IF ~M.defined THEN "raise"
  ELSE IF issue.project.name \notin DOMAIN M.map THEN "skip"
  ELSE LET projectMapping == M.map[issue.project.name]
       IN IF \A g \in DOMAIN LABEL_GROUPS :
               projectMapping[LABEL_GROUPS[g]] \notin existingLabelNames(issue)
          THEN "select" ELSE "skip"

\* The filter callback of the lookup variant on one issue.
FilterLookup(issue, M) ==
  IF issue.project.null THEN "skip"
  ELSE IF ~M.defined THEN "raise"
  ELSE IF issue.project.name \notin DOMAIN M.map THEN "skip"
  ELSE LET projectMapping == M.map[issue.project.name]
       IN IF \E g \in DOMAIN LABEL_GROUPS :
               projectMapping[LABEL_GROUPS[g]] \notin existingLabelNames(issue)
          THEN "select" ELSE "skip"

\* The filter callback of the static variant on one issue.
FilterStatic(issue) ==
  IF issue.project.null \/ ~issue.project.identDefined \/ issue.project.identifier = <<>>
  THEN "skip"
  ELSE LET coreSystemsLabel == inferCoreSystemsLabel(issue.project.identifier)
           coreAreasLabel == inferCoreAreasLabel(issue.project.identifier)
       IN IF coreSystemsLabel.raised \/ coreAreasLabel.raised THEN "raise"
          ELSE IF coreSystemsLabel.name \notin existingLabelNames(issue)
                  \/ coreAreasLabel.name \notin existingLabelNames(issue)
          THEN "select" ELSE "skip"

Filter(m, issue, M) == IF m = "static" THEN FilterStatic(issue) ELSE FilterLookup(issue, M)

\* issues.filter(...): the selected issues in order, or the exception of
\* the first callback that throws.
FilterIssues(m, iss, M) ==
  LET Selected(issue) == Filter(m, issue, M) = "select"
  IN [raised |-> \E k \in DOMAIN iss : Filter(m, iss[k], M) = "raise",
      selected |-> SelectSeq(iss, Selected)]

\* The two required label names of an issue the loop body works on.
RequiredLabelNames(m, issue, M) ==
  IF m = "static"
  THEN <<inferCoreSystemsLabel(issue.project.identifier).name,
         inferCoreAreasLabel(issue.project.identifier).name>>
  ELSE [g \in DOMAIN LABEL_GROUPS |-> M.map[issue.project.name][LABEL_GROUPS[g]]]

\* Mutant: the required id replaces the ids collected so far.
AddRequired_Replace(ids, requiredLabelName, nameToId) ==
  IF requiredLabelName \in DOMAIN nameToId
  THEN {nameToId[requiredLabelName]}
  ELSE ids

\* Mutant: a required label the workspace does not hold is given a new id.
AddRequired_Create(ids, requiredLabelName, nameToId) ==
  IF requiredLabelName \in DOMAIN nameToId
  THEN ids \cup {nameToId[requiredLabelName]}
  ELSE ids \cup {0}

AddRequired(ids, requiredLabelName, nameToId) ==
  IF requiredLabelName \in DOMAIN nameToId
  THEN ids \cup {nameToId[requiredLabelName]}
  ELSE ids

\* newLabelIds at the end of the loop body
NewLabelIds(m, issue, M, nameToId) ==
  LET required == RequiredLabelNames(m, issue, M)
  IN AddRequired(AddRequired(existingLabelIds(issue), required[1], nameToId),
                 required[2], nameToId)

\* Mutant: the check is >= instead of !==.
SizeDiffers_NotLess(newIds, existingIds) == Cardinality(newIds) >= Cardinality(existingIds)

\* Mutant: a change of one label is not seen.
SizeDiffers_ByTwo(newIds, existingIds) == Cardinality(newIds) > Cardinality(existingIds) + 1

\* labelIdsToUpdate.length !== existingLabelIds.size
SizeDiffers(newIds, existingIds) == Cardinality(newIds) # Cardinality(existingIds)

\* What one iteration of the apply loop does with an issue.
LoopBody(m, issue, M, nameToId) ==
  IF issue.project.null THEN "continue"
  ELSE IF m = "static" /\ (~issue.project.identDefined \/ issue.project.identifier = <<>>)
  THEN "continue"
  ELSE IF m = "lookup" /\ ~M.defined THEN "raise"
  ELSE IF m = "lookup" /\ issue.project.name \notin DOMAIN M.map THEN "continue"
  ELSE IF SizeDiffers(NewLabelIds(m, issue, M, nameToId), existingLabelIds(issue))
  THEN "update" ELSE "nochange"

\* ------------------------------------------------------------- history
\* A request sent (kind "issues", "labels", "update") or a retry timer set
\* (kind "delay"), with its outcome once it has completed.
Event(p, kind, cursor, issue, existing, ids, att) ==
  [proc |-> p, kind |-> kind, cursor |-> cursor, issue |-> issue,
   existing |-> existing, labelIds |-> ids, attempts |-> att, result |-> "pending"]

PageRequest(kind, cursor) == Event(procNo, kind, cursor, 0, {}, {}, RETRY_ATTEMPTS)

\* The event run r is suspended on (the last of its history), and the last
\* request it sent.
Pending(r) == log[r][Len(log[r])]
LastRequest(r) ==
  LET sent == {i \in DOMAIN log[r] : log[r][i].kind # "delay"}
  IN log[r][CHOOSE i \in sent : \A j \in sent : j <= i]

\* The history of run r with the outcome of the pending event filled in.
Resolve(r, result) == [log[r] EXCEPT ![Len(log[r])].result = result]

\* ------------------------------------------------------------- steps of a run
\* Mutant: the error is swallowed and the run goes on to the next phase.
Abort_GoOn(r, lg) ==
  /\ pc' = [pc EXCEPT ![r] = "mapping"]
  /\ awaiting' = [awaiting EXCEPT ![r] = "file"]
  /\ log' = [log EXCEPT ![r] = lg]
  /\ UNCHANGED <<attempts, idx>>

\* The catch block of syncTasks: the run ends, nothing else is done.
Abort(r, lg) ==
  /\ pc' = [pc EXCEPT ![r] = "aborted"]
  /\ awaiting' = [awaiting EXCEPT ![r] = "none"]
  /\ log' = [log EXCEPT ![r] = lg]
  /\ UNCHANGED <<attempts, idx>>

\* The `for (const issue of issuesToUpdate)` loop from position k up to the
\* next await (the request of updateIssue) or to the end of syncTasks.
ApplyLoop(r, list, lbls, M, k, lg) ==
  LET nameToId == labelNameToId(lbls)
      stops == {j \in k..Len(list) :
                  LoopBody(mode, list[j], M, nameToId) \in {"update", "raise"}}
  IN IF stops = {}
     THEN /\ pc' = [pc EXCEPT ![r] = "done"]
          /\ awaiting' = [awaiting EXCEPT ![r] = "none"]
          /\ idx' = [idx EXCEPT ![r] = Len(list) + 1]
          /\ log' = [log EXCEPT ![r] = lg]
          /\ UNCHANGED attempts
     ELSE LET j == CHOOSE x \in stops : \A y \in stops : x <= y
              issue == list[j]
          IN IF LoopBody(mode, issue, M, nameToId) = "raise"
             THEN Abort(r, lg)
             ELSE /\ pc' = [pc EXCEPT ![r] = "update"]
                  /\ awaiting' = [awaiting EXCEPT ![r] = "response"]
                  /\ attempts' = [attempts EXCEPT ![r] = RETRY_ATTEMPTS]
                  /\ idx' = [idx EXCEPT ![r] = j]
                  /\ log' = [log EXCEPT ![r] = Append(lg, Event(procNo, "update", 0, issue.id,
                                             existingLabelIds(issue),
                                             NewLabelIds(mode, issue, M, nameToId),
                                             RETRY_ATTEMPTS))]

\* The filter, then the loop.
PlanAndApply(r, lbls, M, lg) ==
  LET res == FilterIssues(mode, issues[r], M)
  IN IF res.raised
     THEN Abort(r, lg) /\ UNCHANGED issuesToUpdate
     ELSE /\ issuesToUpdate' = [issuesToUpdate EXCEPT ![r] = res.selected]
          /\ ApplyLoop(r, res.selected, lbls, M, 1, lg)

\* The script is launched: each top-level syncTasks() call runs up to its
\* first await, the request for the first page of issues.  Nothing is kept
\* from the launch before.  (A further launch is explored after launches
\* without faulty responses only: that bounds the behaviours, not a launch.)
Main ==
  /\ procNo < MaxProcs
  /\ \A r \in Runs : awaiting[r] = "none"
  /\ faults = 0
  /\ procNo' = procNo + 1
  /\ pc' = [r \in Runs |-> IF r \in ActiveRuns THEN "issues" ELSE "idle"]
  /\ awaiting' = [r \in Runs |-> IF r \in ActiveRuns THEN "response" ELSE "none"]
  /\ attempts' = [r \in Runs |-> IF r \in ActiveRuns THEN RETRY_ATTEMPTS ELSE 0]
  /\ endCursor' = [r \in Runs |-> 0]
  /\ issues' = [r \in Runs |-> <<>>]
  /\ labels' = [r \in Runs |-> <<>>]
  /\ mapping' = [r \in Runs |-> UndefinedMapping]
  /\ issuesToUpdate' = [r \in Runs |-> <<>>]
  /\ idx' = [r \in Runs |-> 0]
  /\ log' = [r \in Runs |->
               IF r \in ActiveRuns
               THEN Append(log[r], Event(procNo + 1, "issues", 0, 0, {}, {}, RETRY_ATTEMPTS))
               ELSE log[r]]
  /\ UNCHANGED <<server, inference, srvIssueLabels, faults>>

\* Mutant: the label listing is started together with the next page of
\* issues, without waiting for the issue listing to be complete.
IssuesPageOk_Concurrent(r) ==
  /\ pc[r] = "issues" /\ awaiting[r] = "response"
  /\ LET page == IssuesPage(endCursor[r])
         lg == Resolve(r, "ok")
     IN /\ issues' = [issues EXCEPT ![r] = @ \o page.nodes]
        /\ attempts' = [attempts EXCEPT ![r] = RETRY_ATTEMPTS]
        /\ IF page.hasNextPage
           THEN /\ endCursor' = [endCursor EXCEPT ![r] = page.endCursor]
                /\ log' = [log EXCEPT ![r] =
                             Append(Append(lg, PageRequest("labels", 0)),
                                    PageRequest("issues", page.endCursor))]
                /\ UNCHANGED pc
           ELSE /\ endCursor' = [endCursor EXCEPT ![r] = 0]
                /\ log' = [log EXCEPT ![r] = Append(lg, PageRequest("labels", 0))]
                /\ pc' = [pc EXCEPT ![r] = "labels"]
  /\ UNCHANGED <<server, inference, srvIssueLabels, procNo, awaiting, labels, mapping,
                 issuesToUpdate, idx, faults>>

\* Mutant: a page is put in front of the pages fetched before it.
IssuesPageOk_Prepend(r) ==
  /\ pc[r] = "issues" /\ awaiting[r] = "response"
  /\ LET page == IssuesPage(endCursor[r])
         lg == Resolve(r, "ok")
     IN /\ issues' = [issues EXCEPT ![r] = page.nodes \o @]
        /\ attempts' = [attempts EXCEPT ![r] = RETRY_ATTEMPTS]
        /\ IF page.hasNextPage
           THEN /\ endCursor' = [endCursor EXCEPT ![r] = page.endCursor]
                /\ log' = [log EXCEPT ![r] = Append(lg, PageRequest("issues", page.endCursor))]
                /\ UNCHANGED pc
           ELSE /\ endCursor' = [endCursor EXCEPT ![r] = 0]
                /\ log' = [log EXCEPT ![r] = Append(lg, PageRequest("labels", 0))]
                /\ pc' = [pc EXCEPT ![r] = "labels"]
  /\ UNCHANGED <<server, inference, srvIssueLabels, procNo, awaiting, labels, mapping,
                 issuesToUpdate, idx, faults>>

\* A page of issues arrives: fetchAllIssues appends it and asks for the next
\* page, or returns and fetchWorkspaceLabels asks for its first page.
IssuesPageOk(r) ==
  /\ pc[r] = "issues" /\ awaiting[r] = "response"
  /\ LET page == IssuesPage(endCursor[r])
         lg == Resolve(r, "ok")
     IN /\ issues' = [issues EXCEPT ![r] = @ \o page.nodes]
        /\ attempts' = [attempts EXCEPT ![r] = RETRY_ATTEMPTS]
        /\ IF page.hasNextPage
           THEN /\ endCursor' = [endCursor EXCEPT ![r] = page.endCursor]
                /\ log' = [log EXCEPT ![r] = Append(lg, PageRequest("issues", page.endCursor))]
                /\ UNCHANGED pc
           ELSE /\ endCursor' = [endCursor EXCEPT ![r] = 0]
                /\ log' = [log EXCEPT ![r] = Append(lg, PageRequest("labels", 0))]
                /\ pc' = [pc EXCEPT ![r] = "labels"]
  /\ UNCHANGED <<server, inference, srvIssueLabels, procNo, awaiting, labels, mapping,
                 issuesToUpdate, idx, faults>>

\* A page of labels arrives: fetchWorkspaceLabels appends it and asks for the
\* next page, or returns; then the lookup variant reads the mapping file and
\* the static variant plans and starts to apply.
LabelsPageOk(r) ==
  /\ pc[r] = "labels" /\ awaiting[r] = "response"
  /\ LET page == LabelsPage(endCursor[r])
         lg == Resolve(r, "ok")
         all == labels[r] \o page.nodes
     IN /\ labels' = [labels EXCEPT ![r] = all]
        /\ IF page.hasNextPage
           THEN /\ endCursor' = [endCursor EXCEPT ![r] = page.endCursor]
                /\ attempts' = [attempts EXCEPT ![r] = RETRY_ATTEMPTS]
                /\ log' = [log EXCEPT ![r] = Append(lg, PageRequest("labels", page.endCursor))]
                /\ UNCHANGED <<pc, awaiting, issuesToUpdate, idx>>
           ELSE IF mode = "lookup"
           THEN /\ pc' = [pc EXCEPT ![r] = "mapping"]
                /\ awaiting' = [awaiting EXCEPT ![r] = "file"]
                /\ log' = [log EXCEPT ![r] = lg]
                /\ UNCHANGED <<endCursor, attempts, issuesToUpdate, idx>>
           ELSE /\ PlanAndApply(r, all, UndefinedMapping, lg)
                /\ UNCHANGED endCursor
  /\ UNCHANGED <<server, inference, srvIssueLabels, procNo, issues, mapping, faults>>

\* loadProjectLabelMappings returns what the document holds under
\* PROJECT_LABEL_MAPPING (undefined when the key is absent).
LoadMappingDone(r) ==
  /\ pc[r] = "mapping" /\ awaiting[r] = "file"
  /\ mappingFile \in {"ok", "nokey"}
  /\ LET M == IF mappingFile = "ok" THEN [defined |-> TRUE, map |-> MappingDocument]
              ELSE UndefinedMapping
     IN /\ mapping' = [mapping EXCEPT ![r] = M]
        /\ PlanAndApply(r, labels[r], M, log[r])
  /\ UNCHANGED <<server, inference, srvIssueLabels, procNo, endCursor, issues, labels, faults>>

\* readFile or JSON.parse throws: process.exit(1).
LoadMappingFailed(r) ==
  /\ pc[r] = "mapping" /\ awaiting[r] = "file"
  /\ mappingFile \in {"missing", "unparseable"}
  /\ pc' = [x \in Runs |-> IF x \in ActiveRuns THEN "exited" ELSE pc[x]]
  /\ awaiting' = [x \in Runs |-> "none"]
  /\ UNCHANGED <<server, inference, srvIssueLabels, procNo, attempts, endCursor, issues, labels,
                 mapping, issuesToUpdate, idx, log, faults>>

\* Mutant: updateIssue has no catch, the error of the last attempt reaches
\* the catch of syncTasks.
ResponseFail_NoCatch(r) ==
  /\ awaiting[r] = "response"
  /\ faults < MaxFaults
  /\ faults' = faults + 1
  /\ LET lg == Resolve(r, "fail")
     IN IF attempts[r] > 1
        THEN /\ awaiting' = [awaiting EXCEPT ![r] = "timer"]
             /\ log' = [log EXCEPT ![r] =
                          Append(lg, Event(procNo, "delay", 0, 0, {}, {}, attempts[r]))]
             /\ UNCHANGED <<pc, attempts, idx>>
        ELSE Abort(r, lg)
  /\ UNCHANGED <<server, inference, srvIssueLabels, procNo, endCursor, issues, labels, mapping,
                 issuesToUpdate>>

\* Mutant: the catch of fetchWithRetry calls itself at once, without the
\* timer.
ResponseFail_NoDelay(r) ==
  /\ awaiting[r] = "response"
  /\ faults < MaxFaults
  /\ faults' = faults + 1
  /\ LET lg == Resolve(r, "fail")
     IN IF attempts[r] > 1
        THEN /\ attempts' = [attempts EXCEPT ![r] = @ - 1]
             /\ log' = [log EXCEPT ![r] =
                          Append(lg, [LastRequest(r) EXCEPT !.attempts = attempts[r] - 1,
                                                            !.result = "pending"])]
             /\ UNCHANGED <<pc, awaiting, idx>>
        ELSE IF pc[r] = "update"
        THEN ApplyLoop(r, issuesToUpdate[r], labels[r], mapping[r], idx[r] + 1, lg)
        ELSE Abort(r, lg)
  /\ UNCHANGED <<server, inference, srvIssueLabels, procNo, endCursor, issues, labels, mapping,
                 issuesToUpdate>>

\* Mutant: the last attempt is retried as well (attempts <= 0 instead of
\* attempts <= 1).
ResponseFail_OneMore(r) ==
  /\ awaiting[r] = "response"
  /\ faults < MaxFaults
  /\ faults' = faults + 1
  /\ LET lg == Resolve(r, "fail")
     IN IF attempts[r] > 0
        THEN /\ awaiting' = [awaiting EXCEPT ![r] = "timer"]
             /\ log' = [log EXCEPT ![r] =
                          Append(lg, Event(procNo, "delay", 0, 0, {}, {}, attempts[r]))]
             /\ UNCHANGED <<pc, attempts, idx>>
        ELSE IF pc[r] = "update"
        THEN ApplyLoop(r, issuesToUpdate[r], labels[r], mapping[r], idx[r] + 1, lg)
        ELSE Abort(r, lg)
  /\ UNCHANGED <<server, inference, srvIssueLabels, procNo, endCursor, issues, labels, mapping,
                 issuesToUpdate>>

\* graphqlRequest throws (HTTP status not ok, or an errors list): the catch of
\* fetchWithRetry sets the retry timer, or rethrows on the last attempt; the
\* rethrown error ends the run in a fetch phase and is caught by updateIssue
\* in the apply phase.
ResponseFail(r) ==
  /\ awaiting[r] = "response"
  /\ faults < MaxFaults
  /\ faults' = faults + 1
  /\ LET lg == Resolve(r, "fail")
     IN IF attempts[r] > 1
        THEN /\ awaiting' = [awaiting EXCEPT ![r] = "timer"]
             /\ log' = [log EXCEPT ![r] =
                          Append(lg, Event(procNo, "delay", 0, 0, {}, {}, attempts[r]))]
             /\ UNCHANGED <<pc, attempts, idx>>
        ELSE IF pc[r] = "update"
        THEN ApplyLoop(r, issuesToUpdate[r], labels[r], mapping[r], idx[r] + 1, lg)
        ELSE Abort(r, lg)
  /\ UNCHANGED <<server, inference, srvIssueLabels, procNo, endCursor, issues, labels, mapping,
                 issuesToUpdate>>

\* Mutant: the delay is over but fetchWithRetry is not resumed.
TimerFired_Lost(r) ==
  /\ awaiting[r] = "timer"
  /\ log' = [log EXCEPT ![r] = Resolve(r, "fired")]
  /\ UNCHANGED <<server, inference, srvIssueLabels, procNo, pc, awaiting, attempts,
                 endCursor, issues, labels, mapping, issuesToUpdate, idx, faults>>

\* The retry timer fires: fetchWithRetry(operation, attempts - 1) sends the
\* same request again.
TimerFired(r) ==
  /\ awaiting[r] = "timer"
  /\ awaiting' = [awaiting EXCEPT ![r] = "response"]
  /\ attempts' = [attempts EXCEPT ![r] = @ - 1]
  /\ log' = [log EXCEPT ![r] =
               Append(Resolve(r, "fired"),
                      [LastRequest(r) EXCEPT !.attempts = attempts[r] - 1,
                                             !.result = "pending"])]
  /\ UNCHANGED <<server, inference, srvIssueLabels, procNo, pc, endCursor, issues, labels,
                 mapping, issuesToUpdate, idx, faults>>

\* Mutant: a response without data is retried like a failed request.
ResponseNoData_Retry(r) ==
  /\ awaiting[r] = "response"
  /\ faults < MaxFaults
  /\ faults' = faults + 1
  /\ LET lg == Resolve(r, "nodata")
     IN IF pc[r] = "update"
        THEN ApplyLoop(r, issuesToUpdate[r], labels[r], mapping[r], idx[r] + 1, lg)
        ELSE IF attempts[r] > 1
        THEN /\ awaiting' = [awaiting EXCEPT ![r] = "timer"]
             /\ log' = [log EXCEPT ![r] =
                          Append(lg, Event(procNo, "delay", 0, 0, {}, {}, attempts[r]))]
             /\ UNCHANGED <<pc, attempts, idx>>
        ELSE Abort(r, lg)
  /\ UNCHANGED <<server, inference, srvIssueLabels, procNo, endCursor, issues, labels, mapping,
                 issuesToUpdate>>

\* A response without errors and without data: the fetch loops throw, and
\* updateIssue logs the unexpected format and returns.
ResponseNoData(r) ==
  /\ awaiting[r] = "response"
  /\ faults < MaxFaults
  /\ faults' = faults + 1
  /\ LET lg == Resolve(r, "nodata")
     IN IF pc[r] = "update"
        THEN ApplyLoop(r, issuesToUpdate[r], labels[r], mapping[r], idx[r] + 1, lg)
        ELSE Abort(r, lg)
  /\ UNCHANGED <<server, inference, srvIssueLabels, procNo, endCursor, issues, labels, mapping,
                 issuesToUpdate>>

\* issueUpdate answers success: the server has replaced the issue's labels
\* by the labelIds of the request.
UpdateOk(r) ==
  /\ pc[r] = "update" /\ awaiting[r] = "response"
  /\ srvIssueLabels' = [srvIssueLabels EXCEPT ![Pending(r).issue] = Pending(r).labelIds]
  /\ ApplyLoop(r, issuesToUpdate[r], labels[r], mapping[r], idx[r] + 1, Resolve(r, "ok"))
  /\ UNCHANGED <<server, inference, procNo, endCursor, issues, labels, mapping, issuesToUpdate,
                 faults>>

\* Mutant: success:false is treated as a failed request and retried.
UpdateUnsuccessful_Retry(r) ==
  /\ pc[r] = "update" /\ awaiting[r] = "response"
  /\ faults < MaxFaults
  /\ faults' = faults + 1
  /\ IF attempts[r] > 1
     THEN /\ awaiting' = [awaiting EXCEPT ![r] = "timer"]
          /\ log' = [log EXCEPT ![r] =
                       Append(Resolve(r, "unsuccessful"),
                              Event(procNo, "delay", 0, 0, {}, {}, attempts[r]))]
          /\ UNCHANGED <<pc, attempts, idx>>
     ELSE ApplyLoop(r, issuesToUpdate[r], labels[r], mapping[r], idx[r] + 1,
                    Resolve(r, "unsuccessful"))
  /\ UNCHANGED <<server, inference, srvIssueLabels, procNo, endCursor, issues, labels, mapping,
                 issuesToUpdate>>

\* issueUpdate answers success: false: nothing is changed, a failure is logged.
UpdateUnsuccessful(r) ==
  /\ pc[r] = "update" /\ awaiting[r] = "response"
  /\ faults < MaxFaults
  /\ faults' = faults + 1
  /\ ApplyLoop(r, issuesToUpdate[r], labels[r], mapping[r], idx[r] + 1,
               Resolve(r, "unsuccessful"))
  /\ UNCHANGED <<server, inference, srvIssueLabels, procNo, endCursor, issues, labels, mapping,
                 issuesToUpdate>>

Next ==
  \/ Main
  \/ \E r \in Runs :
       \/ IssuesPageOk(r)
       \/ LabelsPageOk(r)
       \/ LoadMappingDone(r)
       \/ LoadMappingFailed(r)
       \/ ResponseFail(r)
       \/ TimerFired(r)
       \/ ResponseNoData(r)
       \/ UpdateOk(r)
       \/ UpdateUnsuccessful(r)

Spec == Init /\ [][Next]_vars

\* ------------------------------------------------------------- runs whose awaited operations complete
\* The workspaces of the termination check.  Lookup variant: the label
\* listing is empty or holds both labels, an issue has no project or the
\* mapped one and carries no label yet.  Static variant (two concurrent
\* runs, which select no issue whatever the workspace holds): two issues and
\* no label.
FairInit ==
  /\ mode \in {"lookup", "static"}
  /\ mappingFile \in (IF mode = "lookup" THEN MappingFileStates ELSE {"missing"})
  /\ wsLabels \in (IF mode = "lookup" THEN {{}, LabelIds} ELSE {{}})
  /\ srvProject \in (IF mode = "lookup" THEN [IssueIds -> {0, 1}] ELSE {[i \in IssueIds |-> 0]})
  /\ srvIssueLabels = [i \in IssueIds |-> {}]
  /\ NoInference
  /\ NotLaunched

\* What run r does when the operation it awaits completes.
RunStep(r) ==
  \/ IssuesPageOk(r)
  \/ LabelsPageOk(r)
  \/ LoadMappingDone(r)
  \/ LoadMappingFailed(r)
  \/ ResponseFail(r)
  \/ TimerFired(r)
  \/ ResponseNoData(r)
  \/ UpdateOk(r)
  \/ UpdateUnsuccessful(r)

\* Every awaited operation completes: a request is answered (well or not),
\* a retry timer fires, the read of the mapping file returns or throws.
FairSpec == FairInit /\ [][Next]_vars /\ \A r \in Runs : WF_vars(RunStep(r))

\* ------------------------------------------------------------- the inference functions on their own
\* The characters of the identifiers the functions are called on, and the
\* identifiers.
IdentifierChars == DigitChars \cup {".", "a", "-"}
Identifiers == UNION {[1..n -> IdentifierChars] : n \in 0..MaxIdentifierLen}

\* No script is launched; the argument is any identifier.
InferInit ==
  /\ identifierArg \in Identifiers
  /\ systemsResult = NotCalled
  /\ areasResult = NotCalled
  /\ mode = "static"
  /\ mappingFile = "missing"
  /\ wsLabels = {}
  /\ srvProject = [i \in IssueIds |-> 0]
  /\ srvIssueLabels = [i \in IssueIds |-> {}]
  /\ NotLaunched

run == <<srvIssueLabels, procNo, pc, awaiting, attempts, endCursor, issues, labels,
         mapping, issuesToUpdate, idx, log, faults>>

CallInferCoreSystemsLabel ==
  /\ systemsResult = NotCalled
  /\ systemsResult' = inferCoreSystemsLabel(identifierArg)
  /\ UNCHANGED <<server, run, identifierArg, areasResult>>

CallInferCoreAreasLabel ==
  /\ areasResult = NotCalled
  /\ areasResult' = inferCoreAreasLabel(identifierArg)
  /\ UNCHANGED <<server, run, identifierArg, systemsResult>>

InferNext == CallInferCoreSystemsLabel \/ CallInferCoreAreasLabel

InferSpec == InferInit /\ [][InferNext]_vars

\* ------------------------------------------------------------- properties
Range(f) == {f[x] : x \in DOMAIN f}

\* The events of run r that belong to the current launch of the script.
Current(r) == {i \in DOMAIN log[r] : log[r][i].proc = procNo}
UpdatesOf(r) == {i \in Current(r) : log[r][i].kind = "update"}

\* A page request of the current launch of run r that failed for good: the
\* last of the three attempts failed, or the response held no data.
FetchFailed(r) ==
  \E i \in Current(r) :
     /\ log[r][i].kind \in {"issues", "labels"}
     /\ \/ log[r][i].result = "nodata"
        \/ log[r][i].result = "fail" /\ log[r][i].attempts = 1

\* C1: when a page request of the issue listing or of the label listing
\* fails on its last attempt, or is answered without data, the run is
\* aborted, the failed request is the last thing the run did and the run has
\* sent no issue-update request.
C1_FetchFailureAborts ==
  \A r \in Runs :
    FetchFailed(r) =>
      /\ pc[r] = "aborted"
      /\ awaiting[r] = "none"
      /\ UpdatesOf(r) = {}
      /\ log[r][Len(log[r])].kind \in {"issues", "labels"}
      /\ log[r][Len(log[r])].result \in {"fail", "nodata"}

\* A label page fails three times after the issues were fetched, one of
\* which lacks a required label that the workspace holds.
C1_Witness ==
  /\ mode = "lookup" /\ mappingFile = "ok" /\ wsLabels = LabelIds
  /\ srvProject[1] = 1 /\ srvIssueLabels[1] = {}
  /\ Len(issues[1]) = Cardinality(IssueIds)
  /\ pc[1] = "aborted"
  /\ \E i \in Current(1) :
       log[1][i].kind = "labels" /\ log[1][i].result = "fail" /\ log[1][i].attempts = 1

\* The issue node of run r's snapshot with the given id.
Fetched(r, id) == CHOOSE n \in Range(issues[r]) : n.id = id

\* The required label names of a fetched issue, from the mapping document or
\* from the project identifier.
RequiredOf(r, issue) ==
  IF mode = "lookup"
  THEN {mapping[r].map[issue.project.name][g] : g \in Range(LABEL_GROUPS)}
  ELSE {inferCoreSystemsLabel(issue.project.identifier).name,
        inferCoreAreasLabel(issue.project.identifier).name}

\* The ids the fetched workspace listing gives to a set of label names.
ListedIds(r, names) == {l.id : l \in {x \in Range(labels[r]) : x.name \in names}}

\* C2: every issue-update request carries every label id the issue had in
\* the fetched snapshot, and its labelIds are exactly those ids together with
\* the ids the fetched label listing gives to the issue's required names.
C2_UpdateIsUnion ==
  \A r \in Runs : \A i \in UpdatesOf(r) :
    LET e == log[r][i]
        issue == Fetched(r, e.issue)
        had == {l.id : l \in issue.labels}
    IN /\ had \subseteq e.labelIds
       /\ e.existing = had
       /\ e.labelIds = had \cup ListedIds(r, RequiredOf(r, issue))

\* An issue that carries one of its two required labels is sent both.
C2_Witness ==
  \E r \in Runs : \E i \in UpdatesOf(r) :
    /\ log[r][i].existing # {}
    /\ log[r][i].existing # log[r][i].labelIds
    /\ log[r][i].existing \subseteq log[r][i].labelIds

\* ---- the workspace as the server holds it
\* A project identifier of the documented shape: a first segment that
\* starts with three digits.
WellFormedIdentifier(id) == Len(DigitPrefix(FirstSegment(id))) >= 3

\* The issue has a project that the running variant is meant to resolve.
SrvResolvable(i) ==
  /\ srvProject[i] # 0
  /\ IF mode = "lookup"
     THEN mappingFile = "ok" /\ ProjectNameOf[srvProject[i]] \in DOMAIN MappingDocument
     ELSE WellFormedIdentifier(ProjectIdentifierOf[srvProject[i]])

SrvRequired(i) ==
  IF mode = "lookup"
  THEN Range(MappingDocument[ProjectNameOf[srvProject[i]]])
  ELSE {inferCoreSystemsLabel(ProjectIdentifierOf[srvProject[i]]).name,
        inferCoreAreasLabel(ProjectIdentifierOf[srvProject[i]]).name}

LabelExists(name) == \E l \in wsLabels : LabelNameOf[l] = name
SrvCarries(i, name) == \E l \in srvIssueLabels[i] : LabelNameOf[l] = name

\* Every run of the launch has completed and no response was faulty.
CleanlyDone == procNo >= 1 /\ faults = 0 /\ \A r \in ActiveRuns : pc[r] = "done"

\* C3: after a launch in which every request succeeded, every issue with a
\* resolvable project whose two required labels exist in the workspace
\* carries both of them.
C3_AllLabelled ==
  CleanlyDone =>
    \A i \in IssueIds :
      (SrvResolvable(i) /\ \A n \in SrvRequired(i) : LabelExists(n))
        => \A n \in SrvRequired(i) : SrvCarries(i, n)

\* The same for the lookup variant alone, where it holds.
C3_AllLabelledLookup == mode = "lookup" => C3_AllLabelled

\* ---- the planner's selection
\* Run r has filtered its issues: it is in the apply loop or past it.
Planned(r) == pc[r] \in {"update", "done"}

\* The fetched issue has a project the running variant can resolve: its name
\* is a key of the loaded mapping, or it has a project identifier.
Resolvable(r, issue) ==
  /\ ~issue.project.null
  /\ IF mode = "lookup"
     THEN issue.project.name \in DOMAIN mapping[r].map
     ELSE issue.project.identDefined /\ issue.project.identifier # <<>>

MissesRequired(r, issue) ==
  \E n \in RequiredOf(r, issue) : \A l \in issue.labels : l.name # n

SelectedIds(r) == {n.id : n \in Range(issuesToUpdate[r])}

\* C4: the selected issues are exactly the fetched issues that have a
\* resolvable project and miss at least one of their two required label
\* names; an issue without a project, or with a project the mapping does not
\* hold, is not selected, is sent no update, and does not end the run: with a
\* mapping loaded, a run is aborted by a failed fetch only.
C4_SelectedIffMissing ==
  \A r \in Runs :
    /\ Planned(r) =>
         \A n \in Range(issues[r]) :
           n.id \in SelectedIds(r) <=> (Resolvable(r, n) /\ MissesRequired(r, n))
    /\ \A i \in UpdatesOf(r) : Resolvable(r, Fetched(r, log[r][i].issue))
    /\ (pc[r] = "aborted" /\ (mode = "static" \/ mappingFile = "ok")) => FetchFailed(r)

\* One issue of a mapped project that carries one required label only is
\* selected; the other issue, of an unmapped project and with no label at
\* all, is not, and the run completes.
C4_Witness ==
  /\ mode = "lookup" /\ pc[1] = "done" /\ Len(issues[1]) = 2
  /\ issues[1][1].project.name = "Q" /\ issues[1][1].labels = {}
  /\ issues[1][2].project.name = "P" /\ Cardinality(issues[1][2].labels) = 1
  /\ SelectedIds(1) = {2}

\* ---- requests in flight
InFlight == {r \in Runs : awaiting[r] \in {"response", "timer"}}

\* C5: at no point are two requests or retry delays of the process in flight
\* at the same time.
C5_OneAtATime == Cardinality(InFlight) <= 1

\* ---- the apply loop
\* The label ids an update of a fetched issue has to carry, from the fetched
\* listings.
TargetOf(r, issue) ==
  {l.id : l \in issue.labels} \cup ListedIds(r, RequiredOf(r, issue))

NeedsRequest(r, issue) ==
  Cardinality(TargetOf(r, issue)) # Cardinality({l.id : l \in issue.labels})

UpdatedIds(r) == {log[r][i].issue : i \in UpdatesOf(r)}

\* C6: once the apply loop has started the run is never aborted, whatever
\* the outcome of an update, and when the run is done an update request has
\* been sent for every selected issue whose target set differs in size from
\* its existing set (while the loop runs, for every such issue up to its
\* position).
C6_EveryPlannedIssueAttempted ==
  \A r \in Runs :
    /\ pc[r] = "aborted" => UpdatesOf(r) = {}
    /\ Planned(r) =>
         \A k \in DOMAIN issuesToUpdate[r] :
           (k <= idx[r] /\ NeedsRequest(r, issuesToUpdate[r][k]))
             => issuesToUpdate[r][k].id \in UpdatedIds(r)
    /\ pc[r] = "done" => idx[r] = Len(issuesToUpdate[r]) + 1

\* The update of the first issue failed on all three attempts and the
\* update of the second issue was sent all the same.
C6_Witness ==
  \E r \in Runs :
    /\ pc[r] = "done"
    /\ \E i, j \in UpdatesOf(r) :
         /\ i < j
         /\ log[r][i].issue # log[r][j].issue
         /\ log[r][i].result = "fail" /\ log[r][i].attempts = 1

\* ---- the mapping document
\* C7: when the mapping document is missing or unparseable the process
\* exits before it has sent any request.
C7_ExitBeforeNetwork ==
  \A r \in Runs : pc[r] = "exited" => Current(r) = {}

\* ---- malformed project identifiers
\* C8: in the static variant, with an issue whose project identifier is
\* malformed in the batch, no run is aborted for it, and after a launch
\* without faulty responses every other issue that misses a required label
\* the workspace holds has been sent an update.
C8_MalformedSkippedOthersUpdated ==
  (/\ mode = "static"
   /\ \E j \in IssueIds :
        srvProject[j] # 0 /\ ~WellFormedIdentifier(ProjectIdentifierOf[srvProject[j]]))
  => /\ \A r \in ActiveRuns : pc[r] = "aborted" => FetchFailed(r)
     /\ CleanlyDone =>
          \A i \in IssueIds :
            (/\ SrvResolvable(i)
             /\ \E n \in SrvRequired(i) : LabelExists(n) /\ ~SrvCarries(i, n))
            => \E r \in ActiveRuns : i \in UpdatedIds(r)

\* ---- labels the workspace does not hold
\* C9: an update request adds nothing but ids that the fetched label
\* listing gives to the issue's required names, and adds at least one; all
\* its ids are ids the issue had or ids of the listing; when the listing
\* holds one of the two required labels only, that one id is what is added;
\* and a selected issue none of whose missing required labels is in the
\* listing is sent no update.
C9_NeverCreated ==
  \A r \in Runs :
    /\ \A i \in UpdatesOf(r) :
         LET e == log[r][i]
             listed == ListedIds(r, RequiredOf(r, Fetched(r, e.issue)))
             added == e.labelIds \ e.existing
         IN /\ added # {}
            /\ added \subseteq listed
            /\ e.labelIds \subseteq e.existing \cup {l.id : l \in Range(labels[r])}
            /\ Cardinality(listed) = 1 => added = listed
    /\ Planned(r) =>
         \A n \in Range(issuesToUpdate[r]) :
           LET missing == {x \in RequiredOf(r, n) : \A l \in n.labels : l.name # x}
           IN ListedIds(r, missing) = {} => n.id \notin UpdatedIds(r)

\* The workspace holds the system label only.  Issue 1 carries it and misses
\* the area label: it is selected and sent nothing.  Issue 2 carries no label:
\* it is sent the system label alone.
C9_Witness ==
  /\ mode = "lookup" /\ pc[1] = "done" /\ wsLabels = {1}
  /\ SelectedIds(1) = {1, 2}
  /\ UpdatedIds(1) = {2}
  /\ \A i \in UpdatesOf(1) : log[1][i].labelIds = {1} /\ log[1][i].existing = {}

\* ---- an already labelled workspace
FullyLabelled(r) ==
  \A n \in Range(issues[r]) : Resolvable(r, n) => ~MissesRequired(r, n)

\* C10: a run whose fetched issues with a resolvable project all carry both
\* required label names selects no issue and sends no update request; this
\* holds of every launch of the script, so of a second launch on the same
\* set as well.
C10_PlannerIdempotent ==
  \A r \in Runs :
    (Planned(r) /\ FullyLabelled(r)) =>
      (issuesToUpdate[r] = <<>> /\ UpdatesOf(r) = {})

\* The second launch on a set in which an issue of a mapped project carries
\* both labels is done, and neither launch has sent an update.
C10_Witness ==
  /\ mode = "lookup" /\ procNo = 2 /\ pc[1] = "done"
  /\ FullyLabelled(1)
  /\ \E n \in Range(issues[1]) : Resolvable(1, n)
  /\ issuesToUpdate[1] = <<>>
  /\ \A i \in DOMAIN log[1] : log[1][i].kind # "update"
  /\ \E i \in DOMAIN log[1] : log[1][i].proc = 1

\* ---- fetchWithRetry
\* An operation handed to fetchWithRetry is a request together with its
\* retries.  It starts at an event sent with the full number of attempts and
\* reaches up to the next such event.
OpStarts(r) ==
  {i \in DOMAIN log[r] : log[r][i].kind # "delay" /\ log[r][i].attempts = RETRY_ATTEMPTS}

OpEnd(r, i) ==
  LET later == {j \in OpStarts(r) : j > i}
  IN IF later = {} THEN Len(log[r]) ELSE (CHOOSE j \in later : \A x \in later : j <= x) - 1

\* The invocations of the operation that starts at i, and the delays waited
\* between them.
Invocations(r, i) == {j \in i..OpEnd(r, i) : log[r][j].kind # "delay"}
Delays(r, i) == {j \in i..OpEnd(r, i) : log[r][j].kind = "delay"}
FailedInvocations(r, i) == {j \in Invocations(r, i) : log[r][j].result = "fail"}

\* Outcomes with which graphqlRequest returns a value to fetchWithRetry.
Returns == {"ok", "nodata", "unsuccessful"}
ReturnedInvocations(r, i) == {j \in Invocations(r, i) : log[r][j].result \in Returns}

SameRequest(e, f) ==
  /\ e.proc = f.proc /\ e.kind = f.kind /\ e.cursor = f.cursor
  /\ e.issue = f.issue /\ e.labelIds = f.labelIds

\* C11: an operation that fails k times and then returns has k <= 2, was
\* invoked exactly k + 1 times and waited exactly k delays, one after each
\* failure and all of them over; the invocation that returned is the last
\* one, and every invocation sent the same request.
C11_RetryThenSuccess ==
  \A r \in Runs : \A i \in OpStarts(r) :
    LET inv == Invocations(r, i)
        k == Cardinality(FailedInvocations(r, i))
    IN ReturnedInvocations(r, i) # {} =>
         /\ k <= RETRY_ATTEMPTS - 1
         /\ Cardinality(inv) = k + 1
         /\ Cardinality(Delays(r, i)) = k
         /\ Cardinality(ReturnedInvocations(r, i)) = 1
         /\ \A j \in Delays(r, i) : log[r][j].result = "fired"
         /\ \A j \in FailedInvocations(r, i) : j + 1 \in Delays(r, i) /\ j + 2 \in inv
         /\ \A j \in ReturnedInvocations(r, i) : \A x \in inv : x <= j
         /\ \A j \in inv : SameRequest(log[r][j], log[r][i])

\* A page request fails twice and succeeds on the third invocation, after
\* two delays.
C11_Witness ==
  \E r \in Runs : \E i \in OpStarts(r) :
    /\ i + 4 <= Len(log[r])
    /\ log[r][i].kind \in {"issues", "labels"}
    /\ log[r][i].result = "fail" /\ log[r][i + 1].kind = "delay"
    /\ log[r][i + 2].result = "fail" /\ log[r][i + 3].kind = "delay"
    /\ log[r][i + 3].result = "fired"
    /\ log[r][i + 4].result = "ok" /\ log[r][i + 4].attempts = 1
    /\ Cardinality(Invocations(r, i)) = 3 /\ Cardinality(Delays(r, i)) = 2

\* ---- pagination
\* The pages in which the server serves a listing, from cursor `after` on.
RECURSIVE Pages(_, _, _)
Pages(all, after, first) ==
  LET pg == Page(all, after, first)
  IN <<pg>> \o (IF pg.hasNextPage THEN Pages(all, pg.endCursor, first) ELSE <<>>)

RECURSIVE ConcatNodes(_)
ConcatNodes(ps) == IF ps = <<>> THEN <<>> ELSE Head(ps).nodes \o ConcatNodes(Tail(ps))

\* The page requests of a listing that run r has sent in the current launch,
\* in the order it sent them.
PageRequests(r, kind) == SortedSeq({i \in Current(r) : log[r][i].kind = kind})

NoFailure(r, kind) ==
  \A i \in Current(r) :
    log[r][i].kind = kind => log[r][i].result = "ok" /\ log[r][i].attempts = RETRY_ATTEMPTS

\* fetchAllIssues / fetchWorkspaceLabels of run r has returned.
IssuesReturned(r) == \E i \in Current(r) : log[r][i].kind = "labels"
LabelsReturned(r) ==
  \/ pc[r] \in {"mapping", "update", "done", "exited"}
  \/ pc[r] = "aborted" /\ IssuesReturned(r) /\ ~FetchFailed(r)

\* The requests rq (indices of log[r]) follow the pages ps: one request per
\* page, the first with a null cursor, each later one with the endCursor of
\* the page before.
FollowsPages(r, rq, ps) ==
  /\ Len(rq) = Len(ps)
  /\ log[r][rq[1]].cursor = 0
  /\ \A k \in 2..Len(rq) : log[r][rq[k]].cursor = ps[k - 1].endCursor

\* C12: when a fetch loop has returned and none of its requests failed, it
\* has sent exactly one request per page the server serves the listing in,
\* the first with a null cursor and each later one with the endCursor of the
\* page before, and what it returned is the concatenation of the pages'
\* nodes in page order (for both the issue and the label listing).
C12_Pagination ==
  \A r \in Runs :
    /\ (IssuesReturned(r) /\ NoFailure(r, "issues")) =>
         LET ps == Pages(SortedSeq(IssueIds), 0, ISSUES_PAGE_FIRST)
         IN /\ FollowsPages(r, PageRequests(r, "issues"), ps)
            /\ [k \in DOMAIN issues[r] |-> issues[r][k].id] = ConcatNodes(ps)
    /\ (LabelsReturned(r) /\ NoFailure(r, "labels")) =>
         LET ps == Pages(SortedSeq(wsLabels), 0, LABELS_PAGE_FIRST)
         IN /\ FollowsPages(r, PageRequests(r, "labels"), ps)
            /\ labels[r] = [k \in DOMAIN ConcatNodes(ps) |-> LabelNode(ConcatNodes(ps)[k])]

\* Both listings are served in more than one page or both in one page of
\* more than one item, and a run has fetched both without a failure.
C12_Witness ==
  \E r \in Runs :
    /\ pc[r] = "done" /\ NoFailure(r, "issues") /\ NoFailure(r, "labels")
    /\ Len(issues[r]) >= 2 /\ Len(labels[r]) >= 2
    /\ issues[r][1].id # issues[r][2].id
    /\ Len(PageRequests(r, "issues")) = Len(Pages(SortedSeq(IssueIds), 0, ISSUES_PAGE_FIRST))
    /\ \A k \in 2..Len(PageRequests(r, "issues")) :
         log[r][PageRequests(r, "issues")[k]].cursor # 0

\* ---- the change check
\* C13: for every selected issue the target set differs in size from the
\* existing set exactly when it differs from it as a set, and an update
\* request has been sent for the issue exactly when the apply loop has
\* reached it and its target set differs from its existing set.
C13_SizeCheckExact ==
  \A r \in Runs : Planned(r) =>
    \A k \in DOMAIN issuesToUpdate[r] :
      LET issue == issuesToUpdate[r][k]
          existing == {l.id : l \in issue.labels}
          target == TargetOf(r, issue)
      IN /\ (Cardinality(target) # Cardinality(existing)) <=> (target # existing)
         /\ issue.id \in UpdatedIds(r) <=> (k <= idx[r] /\ target # existing)

\* A completed run with two selected issues: the target of one equals what
\* it has (its missing label is not in the workspace) and it was sent
\* nothing; the target of the other differs and it was sent an update.
C13_Witness ==
  \E r \in Runs :
    /\ pc[r] = "done" /\ Len(issuesToUpdate[r]) = 2
    /\ \E a, b \in Range(issuesToUpdate[r]) :
         /\ TargetOf(r, a) = {l.id : l \in a.labels} /\ a.labels # {}
         /\ a.id \notin UpdatedIds(r)
         /\ TargetOf(r, b) # {l.id : l \in b.labels}
         /\ b.id \in UpdatedIds(r)

\* ---- retry exhaustion
\* The operation that starts at i has failed on its last attempt.
Exhausted(r, i) ==
  \E j \in Invocations(r, i) : log[r][j].attempts = 1 /\ log[r][j].result = "fail"

\* C14: no operation is invoked more than three times, and only its last
\* event can be outstanding (one invocation or delay at a time).  An
\* operation that fails on every attempt is invoked exactly three times with
\* exactly two delays, one between each two invocations, all of the same
\* request; after the third failure nothing more is done for it, and when it
\* is a page request the failure ends the run there.
C14_RetryExhaustion ==
  \A r \in Runs : \A i \in OpStarts(r) :
    LET inv == Invocations(r, i)
        del == Delays(r, i)
    IN /\ Cardinality(inv) <= RETRY_ATTEMPTS
       /\ \A j \in inv \cup del : log[r][j].result = "pending" => j = Len(log[r])
       /\ Exhausted(r, i) =>
            /\ inv = {i, i + 2, i + 4}
            /\ del = {i + 1, i + 3}
            /\ FailedInvocations(r, i) = inv
            /\ \A j \in del : log[r][j].result = "fired"
            /\ \A j \in inv : SameRequest(log[r][j], log[r][i])
            /\ \A j \in inv : log[r][j].attempts = RETRY_ATTEMPTS - ((j - i) \div 2)
            /\ (log[r][i].kind \in {"issues", "labels"} /\ i \in Current(r)) =>
                 (pc[r] = "aborted" /\ Len(log[r]) = i + 4)

\* A page request of the issue listing has failed three times, with two
\* delays in between, and the run is aborted.
C14_Witness ==
  \E r \in Runs : \E i \in OpStarts(r) :
    /\ log[r][i].kind = "issues" /\ Exhausted(r, i)
    /\ Cardinality(Invocations(r, i)) = RETRY_ATTEMPTS
    /\ Cardinality(Delays(r, i)) = RETRY_ATTEMPTS - 1
    /\ \A j \in Invocations(r, i) : log[r][j].result = "fail"
    /\ pc[r] = "aborted"

\* ---- a page response without data
\* C15: a page request that is answered without a data payload is the last
\* thing its run does: the run is aborted and waits for nothing, and no
\* request (for the next page or for the same page again) and no retry delay
\* follows it.
C15_MissingDataEndsFetch ==
  \A r \in Runs : \A i \in DOMAIN log[r] :
    (log[r][i].kind \in {"issues", "labels"} /\ log[r][i].result = "nodata") =>
      /\ i = Len(log[r])
      /\ pc[r] = "aborted"
      /\ awaiting[r] = "none"

\* The first request of the label listing is answered without data on its
\* first attempt, after the issue listing was fetched in full.
C15_Witness ==
  \E r \in Runs :
    /\ Len(issues[r]) = Cardinality(IssueIds)
    /\ Pending(r).kind = "labels" /\ Pending(r).result = "nodata"
    /\ Pending(r).attempts = RETRY_ATTEMPTS
    /\ pc[r] = "aborted"

\* ---- an update answered success:false
\* The position of a selected issue in the list the apply loop walks.
PositionOf(r, id) == CHOOSE k \in DOMAIN issuesToUpdate[r] : issuesToUpdate[r][k].id = id

\* C16: an update request of the current launch that was answered
\* success:false is recorded as failed and is not sent again: no further
\* update of the same issue follows it, and when it was the
\* first invocation it is the only update request of that issue.  The run is
\* not aborted by it: the apply loop has moved past the issue, the next
\* event of the run (if any) is the first invocation of the update of a later
\* issue, and when the run is done every later selected issue that needs
\* an update has been sent one.
C16_UnsuccessfulNotRetried ==
  \A r \in Runs : \A i \in UpdatesOf(r) :
    LET e == log[r][i]
        pos == PositionOf(r, e.issue)
    IN e.result = "unsuccessful" =>
         /\ \A j \in UpdatesOf(r) : j > i => log[r][j].issue # e.issue
         /\ e.attempts = RETRY_ATTEMPTS =>
              Cardinality({j \in UpdatesOf(r) : log[r][j].issue = e.issue}) = 1
         /\ pc[r] \in {"update", "done"}
         /\ pos < idx[r]
         /\ i < Len(log[r]) =>
              /\ log[r][i + 1].kind = "update"
              /\ log[r][i + 1].attempts = RETRY_ATTEMPTS
              /\ PositionOf(r, log[r][i + 1].issue) > pos
         /\ i = Len(log[r]) => pc[r] = "done"
         /\ pc[r] = "done" =>
              \A k \in DOMAIN issuesToUpdate[r] :
                (k > pos /\ NeedsRequest(r, issuesToUpdate[r][k]))
                  => \E j \in UpdatesOf(r) : j > i /\ log[r][j].issue = issuesToUpdate[r][k].id

\* The update of the first selected issue is answered success:false on its
\* first invocation, the update of the second is then sent and succeeds, and
\* the run is done.
C16_Witness ==
  \E r \in Runs : \E i \in UpdatesOf(r) :
    /\ log[r][i].result = "unsuccessful" /\ log[r][i].attempts = RETRY_ATTEMPTS
    /\ i + 1 = Len(log[r])
    /\ log[r][i + 1].kind = "update" /\ log[r][i + 1].result = "ok"
    /\ log[r][i + 1].issue # log[r][i].issue
    /\ pc[r] = "done"

\* ---- the phases of a run
\* The phase a request belongs to: 1 issue listing, 2 label listing, 3 apply.
PhaseOf(kind) == IF kind = "issues" THEN 1 ELSE IF kind = "labels" THEN 2 ELSE 3

\* The requests run r has sent in launch p.
RequestsOf(r, p) == {i \in DOMAIN log[r] : log[r][i].proc = p /\ log[r][i].kind # "delay"}

\* C17: within one run of one launch the requests are sent phase by phase:
\* no page request of the issue listing comes after a page request of the
\* label listing, and no page request comes after an update request; every
\* request of an earlier phase has completed when the first request of a
\* later phase is sent, and the last request of the earlier phase has
\* succeeded.
C17_PhasesInSequence ==
  \A r \in Runs : \A p \in 1..procNo :
    \A i, j \in RequestsOf(r, p) :
      i < j =>
        /\ PhaseOf(log[r][i].kind) <= PhaseOf(log[r][j].kind)
        /\ log[r][i].result # "pending"
        /\ PhaseOf(log[r][i].kind) < PhaseOf(log[r][j].kind) =>
             \E m \in RequestsOf(r, p) :
               /\ m < j /\ log[r][m].kind = log[r][i].kind /\ log[r][m].result = "ok"
               /\ \A x \in RequestsOf(r, p) : (x < j /\ log[r][x].kind = log[r][i].kind) => x <= m

\* A run has sent requests of all three phases, one page request per page of
\* the issue listing, and a label page request that had to be retried.
C17_Witness ==
  \E r \in Runs :
    /\ \E i \in UpdatesOf(r) : log[r][i].result = "ok"
    /\ Len(PageRequests(r, "issues")) = Len(Pages(SortedSeq(IssueIds), 0, ISSUES_PAGE_FIRST))
    /\ \E i \in Current(r) : log[r][i].kind = "labels" /\ log[r][i].result = "fail"
    /\ \E i \in Current(r) : log[r][i].kind = "labels" /\ log[r][i].result = "ok"

\* ---- the inference functions
\* The first three characters of the identifier's first segment do not parse
\* as an integer.
NonNumericLead(id) == ParseInt(Slice(FirstSegment(id), 0, 3)).nan

\* Both functions fail on the empty identifier.
EmptyRejected ==
  identifierArg = <<>> =>
    /\ systemsResult # NotCalled => systemsResult.raised
    /\ areasResult # NotCalled => areasResult.raised

\* C18: inferCoreSystemsLabel fails, and returns no label name, on an
\* identifier whose first segment does not start with an integer, and both
\* functions fail on the empty identifier.
C18_NonNumericRejected ==
  /\ (systemsResult # NotCalled /\ NonNumericLead(identifierArg)) => systemsResult.raised
  /\ EmptyRejected

\* The empty identifier alone, where the functions do fail.
C18_EmptyRejectedOnly == EmptyRejected

\* The three decimal digits of a number of 0..999.
ThreeDigits(n) ==
  <<Digits[(n \div 100) + 1], Digits[((n \div 10) % 10) + 1], Digits[(n % 10) + 1]>>

\* C19: called on an identifier whose first segment starts with three
\* digits, of value n, inferCoreSystemsLabel returns "[" lower "-" upper "]"
\* where lower = floor(n / 100) * 100 and upper = lower + 99 are written
\* with three digits, lower <= n <= upper and upper - lower = 99.
C19_SystemsRange ==
  (systemsResult # NotCalled /\ WellFormedIdentifier(identifierArg)) =>
    LET n == DecValue(SubSeq(identifierArg, 1, 3))
        lowerBound == (n \div 100) * 100
        upperBound == lowerBound + 99
    IN /\ n \in 0..999
       /\ lowerBound <= n /\ n <= upperBound
       /\ upperBound - lowerBound = 99
       /\ ~systemsResult.raised
       /\ systemsResult.name = <<"[">> \o ThreeDigits(lowerBound) \o <<"-">>
                                 \o ThreeDigits(upperBound) \o <<"]">>

\* inferCoreSystemsLabel was called on an identifier that starts with 234
\* and returned "[200-299]".
C19_Witness ==
  /\ Len(identifierArg) >= 3
  /\ SubSeq(identifierArg, 1, 3) = <<"2", "3", "4">>
  /\ systemsResult = Returned(SystemsName)

\* ---- termination
Running(r) == pc[r] \in {"issues", "labels", "mapping", "update"}
Ended(r) == pc[r] \in {"done", "aborted", "exited"}

\* The listing a page request is about, and the page the server answers it
\* with.
ListingOf(kind) == IF kind = "issues" THEN SortedSeq(IssueIds) ELSE SortedSeq(wsLabels)
FirstOf(kind) == IF kind = "issues" THEN ISSUES_PAGE_FIRST ELSE LABELS_PAGE_FIRST
AnswerTo(e) == Page(ListingOf(e.kind), e.cursor, FirstOf(e.kind))

\* After a page with hasNextPage = false the fetch loop sends no further
\* request for the listing; after a page with hasNextPage = true it asks for
\* the next one.
StopsAtLastPage ==
  \A r \in Runs : \A i \in Current(r) :
    LET e == log[r][i]
    IN (e.kind \in {"issues", "labels"} /\ e.result = "ok") =>
         IF AnswerTo(e).hasNextPage
         THEN /\ i < Len(log[r])
              /\ log[r][i + 1].kind = e.kind
              /\ log[r][i + 1].cursor = AnswerTo(e).endCursor
         ELSE \A j \in Current(r) : j > i => log[r][j].kind # e.kind

\* C20: when every awaited operation completes, every run that has started
\* reaches its end (done, aborted, or ended by the exit of the process); and
\* each fetch loop stops at the first page whose hasNextPage is false.
C20_Terminates ==
  /\ \A r \in Runs : Running(r) ~> Ended(r)
  /\ []StopsAtLastPage

\* A run has fetched a listing of more than one page up to its last page,
\* then the label listing, and is done after an update.
C20_Witness ==
  \E r \in Runs :
    /\ pc[r] = "done"
    /\ UpdatesOf(r) # {}
    /\ \E i \in Current(r) :
         /\ log[r][i].kind = "issues" /\ log[r][i].result = "ok"
         /\ ~AnswerTo(log[r][i]).hasNextPage
         /\ log[r][i + 1].kind = "labels"

\* ---- a second launch
\* The update requests run r sent in launch p.
UpdatesIn(r, p) == {i \in DOMAIN log[r] : log[r][i].proc = p /\ log[r][i].kind = "update"}

\* The script was launched before, and in the launches before the current
\* one no response was faulty, so that every update request succeeded and
\* the server holds the labelIds that were sent.
LaunchedAfterSuccess ==
  /\ procNo >= 2
  /\ \A r \in Runs : \A i \in DOMAIN log[r] :
       log[r][i].proc < procNo => log[r][i].result \in {"ok", "fired"}

\* C21: a launch that follows launches in which every update request
\* succeeded sends no update request, and for every issue it selects (one
\* whose missing required label the workspace does not hold) the target set
\* is the set the issue already has.
C21_SecondRunSendsNothing ==
  LaunchedAfterSuccess =>
    \A r \in Runs :
      /\ UpdatesOf(r) = {}
      /\ Planned(r) =>
           \A n \in Range(issuesToUpdate[r]) :
             /\ TargetOf(r, n) = {l.id : l \in n.labels}
             /\ \E x \in RequiredOf(r, n) : ~LabelExists(x)

\* The first launch sent an update that succeeded; the second launch is
\* done, still selects an issue and has sent no update.
C21_Witness ==
  \E r \in Runs :
    /\ LaunchedAfterSuccess /\ procNo = 2 /\ pc[r] = "done"
    /\ \E i \in UpdatesIn(r, 1) : log[r][i].result = "ok"
    /\ issuesToUpdate[r] # <<>>
    /\ UpdatesIn(r, 2) = {}

====
